---- MODULE Spec2Model ----
(***************************************************************************)
(* A model of data_prep.py: label unification, the noise/duplicate filter  *)
(* of the main script, sliding-window aggregation (apply_windowing) and    *)
(* class balancing by resampling with replacement (sample_down,            *)
(* sample_up).                                                             *)
(*                                                                         *)
(* A DataFrame is a sequence of rows (records); positions are 1-based here *)
(* and 0-based in the source.  A numeric mean is kept exact, as a reduced  *)
(* fraction.                                                               *)
(***************************************************************************)
EXTENDS Integers, Sequences, FiniteSets

VARIABLES
    pc,             \* position of the operation being run
    op,             \* name of the balancer applied ("" before any call)
    row,            \* unify_behaviors: the record passed in
    unified,        \* unify_behaviors: the value returned
    df_raw,         \* __main__: the table with the unified Behavior column
    df_clean,       \* __main__: the filtered table
    df,             \* apply_windowing / sample_*: the table passed in
    window_size,    \* apply_windowing parameter
    step_size,      \* apply_windowing parameter
    i,              \* apply_windowing: loop variable of the label loop
    values,         \* apply_windowing: the window slices of the feature column
    df_windows,     \* apply_windowing: the window table
    dog_ids,        \* apply_windowing: modal DogID per window
    train_labels,   \* apply_windowing: modal Behavior per window
    balancer_calls, \* apply_windowing: the tables sample_up was called with
    result          \* the table returned by the operation

vars == <<pc, op, row, unified, df_raw, df_clean, df, window_size, step_size, i,
          values, df_windows, dog_ids, train_labels, balancer_calls, result>>

uvars == <<row, unified>>
fvars == <<df_raw, df_clean>>
wvars == <<window_size, step_size, i, values, df_windows, dog_ids, train_labels,
           balancer_calls>>

(***************************************************************************)
(* Bounds of the model.                                                    *)
(***************************************************************************)
MaxLen == 4
MaxWindow == 3
MaxStep == 2
MaxRows == 3
MaxTable == 3

(***************************************************************************)
(* Helpers.                                                                *)
(***************************************************************************)
Min(a, b) == IF a <= b THEN a ELSE b

Max(a, b) == IF a >= b THEN a ELSE b

Range(s) == {s[k] : k \in DOMAIN s}

Tables(Rows, n) == UNION {[1..m -> Rows] : m \in 0..n}

RECURSIVE Sum(_)
Sum(s) == IF s = <<>> THEN 0 ELSE Head(s) + Sum(Tail(s))

RECURSIVE Gcd(_, _)
Gcd(a, b) == IF b = 0 THEN a ELSE Gcd(b, a % b)

Count(s, v) == Cardinality({k \in DOMAIN s : s[k] = v})

Column(t, c) == [k \in DOMAIN t |-> t[k][c]]

Undefined == "<undefined>"

NoValue == "<none>"

(***************************************************************************)
(* unify_behaviors                                                         *)
(***************************************************************************)
UnifyLabels == {Undefined, "Walking", "Sitting", "Bowing", "Synchronization"}

RawRows == [Behavior_1 : UnifyLabels, Behavior_2 : UnifyLabels, Behavior_3 : UnifyLabels]

unify_behaviors_b2first(r) ==
    IF r["Behavior_2"] # Undefined THEN r["Behavior_2"]
    ELSE IF r["Behavior_1"] # Undefined THEN r["Behavior_1"]
    ELSE r["Behavior_3"]

unify_behaviors(r) ==
    IF r["Behavior_1"] # Undefined THEN r["Behavior_1"]
    ELSE IF r["Behavior_2"] # Undefined THEN r["Behavior_2"]
    ELSE r["Behavior_3"]

UnifyIdle == row = NoValue /\ unified = NoValue

FilterIdle == df_raw = <<>> /\ df_clean = <<>>

WindowIdle ==
    /\ window_size = 1 /\ step_size = 1 /\ i = 0
    /\ values = <<>> /\ df_windows = <<>> /\ dog_ids = <<>> /\ train_labels = <<>>
    /\ balancer_calls = <<>>

InitUnify ==
    /\ pc = "call" /\ op = ""
    /\ row \in RawRows /\ unified = NoValue
    /\ FilterIdle /\ WindowIdle
    /\ df = <<>> /\ result = NoValue

UnifyBehaviors ==
    /\ pc = "call"
    /\ unified' = unify_behaviors(row)
    /\ pc' = "done"
    /\ UNCHANGED <<op, row, fvars, df, wvars, result>>

NextUnify == UnifyBehaviors

SpecUnify == InitUnify /\ [][NextUnify]_vars

\* The three label fields of a record, in priority order.
LabelFields(r) == <<r["Behavior_1"], r["Behavior_2"], r["Behavior_3"]>>

DefinedFields(r) == {k \in 1..3 : LabelFields(r)[k] # Undefined}

FirstDefined(r) ==
    IF DefinedFields(r) = {} THEN Undefined
    ELSE LabelFields(r)[CHOOSE k \in DefinedFields(r) : \A j \in DefinedFields(r) : k <= j]

\* C6: every call of unify_behaviors returns the value of the lowest-numbered
\* label field that is not the undefined sentinel, returns the sentinel exactly
\* when all three fields are undefined, always returns a label, and leaves the
\* record as it was.
C6_UnifyFirstDefined ==
    [][(pc = "call" /\ pc' = "done") =>
        /\ unified' = FirstDefined(row)
        /\ (unified' = Undefined <=> DefinedFields(row) = {})
        /\ unified' \in UnifyLabels
        /\ row' = row]_vars

C6_Witness ==
    /\ pc = "done"
    /\ row = [Behavior_1 |-> Undefined, Behavior_2 |-> "Walking", Behavior_3 |-> "Sitting"]
    /\ unified = "Walking"

(***************************************************************************)
(* __main__: the noise/duplicate filter (lines 168-173).  In a row of      *)
(* df_raw, t_sec stands for the columns the filter keeps beside Behavior   *)
(* (DogID, t_sec, the sensor channels) and Task for the columns line 168   *)
(* drops (TestNum, Task, Behavior_1..3, PointEvent).                       *)
(***************************************************************************)
FilterLabels == {Undefined, "Synchronization", "Extra_Synchronization", "Bowing", "Walking"}

TSecs == {1, 2}

Tasks == {"Task sit", "Task walk"}

FilterRows == [t_sec : TSecs, Task : Tasks, Behavior : FilterLabels]

drop_columns(t) ==
    [k \in DOMAIN t |-> [t_sec |-> t[k]["t_sec"], Behavior |-> t[k]["Behavior"]]]

IsNoiseKeepBowing(r) ==
    \/ r["Behavior"] = Undefined
    \/ r["Behavior"] = "Synchronization"
    \/ r["Behavior"] = "Extra_Synchronization"

IsNoise(r) ==
    \/ r["Behavior"] = Undefined
    \/ r["Behavior"] = "Synchronization"
    \/ r["Behavior"] = "Extra_Synchronization"
    \/ r["Behavior"] = "Bowing"

Wanted(r) == ~IsNoise(r)

drop_noise(t) == SelectSeq(t, Wanted)

\* DataFrame.drop_duplicates(): a row stays unless an equal row precedes it.
RECURSIVE drop_duplicates(_)
drop_duplicates(t) ==
    IF t = <<>> THEN <<>>
    ELSE LET front == drop_duplicates(SubSeq(t, 1, Len(t) - 1))
             last == t[Len(t)]
         IN IF last \in Range(front) THEN front ELSE Append(front, last)

InitFilter ==
    /\ pc = "call" /\ op = ""
    /\ UnifyIdle
    /\ df_raw \in Tables(FilterRows, MaxRows) /\ df_clean = <<>>
    /\ WindowIdle
    /\ df = <<>> /\ result = NoValue

CleanData ==
    /\ pc = "call"
    /\ df_clean' = drop_duplicates(drop_noise(drop_columns(df_raw)))
    /\ pc' = "done"
    /\ UNCHANGED <<op, uvars, df_raw, df, wvars, result>>

NextFilter == CleanData

SpecFilter == InitFilter /\ [][NextFilter]_vars

Excluded == {Undefined, "Synchronization", "Extra_Synchronization", "Bowing"}

\* Positions of df_raw whose label is not excluded.
KeptPositions == {k \in DOMAIN df_raw : df_raw[k]["Behavior"] \notin Excluded}

NoisePositions == {k \in DOMAIN df_raw : df_raw[k]["Behavior"] \in Excluded}

Retained(r) == [t_sec |-> r["t_sec"], Behavior |-> r["Behavior"]]

\* Position in df_raw of the first kept row that agrees with r on the retained columns.
FirstKept(r) ==
    CHOOSE k \in KeptPositions :
        /\ Retained(df_raw[k]) = r
        /\ \A j \in KeptPositions : Retained(df_raw[j]) = r => k <= j

\* C7 as stated: duplicates are groups of rows identical in every field of the
\* input table, and the row count drops by the excluded-label rows plus the
\* redundant members of those groups.
C7_FullRowDuplicates ==
    pc = "done" =>
        Len(df_raw) - Len(df_clean) =
            Cardinality(NoisePositions)
            + (Cardinality(KeptPositions) - Cardinality({df_raw[k] : k \in KeptPositions}))

\* C7 amended: the filter outputs exactly the rows whose label is not excluded,
\* reduced to the retained columns, one (the first) per group of rows identical
\* in the retained columns, in their input order; the row count drops by the
\* excluded-label rows plus the redundant members of those groups.
C7_FilterRetainedColumns ==
    pc = "done" =>
        /\ Range(df_clean) = {Retained(df_raw[k]) : k \in KeptPositions}
        /\ \A a, b \in DOMAIN df_clean : a < b => FirstKept(df_clean[a]) < FirstKept(df_clean[b])
        /\ Len(df_raw) - Len(df_clean) =
              Cardinality(NoisePositions)
              + (Cardinality(KeptPositions)
                 - Cardinality({Retained(df_raw[k]) : k \in KeptPositions}))

C7_Witness ==
    /\ pc = "done"
    /\ Len(df_raw) = 3
    /\ df_raw[1]["Behavior"] = "Bowing"
    /\ df_raw[2] = df_raw[3]
    /\ Len(df_clean) = 1

(***************************************************************************)
(* get_splited_df_dict, sample_down, sample_up                             *)
(***************************************************************************)
BalanceLabels == {"Jumping", "Lying chest", "Walking"}

Values == {1, 2}

BalanceRows == [x : Values, Behavior : BalanceLabels]

\* Series.unique(): the distinct values in order of first appearance.
RECURSIVE unique(_)
unique(s) ==
    IF s = <<>> THEN <<>>
    ELSE LET front == unique(SubSeq(s, 1, Len(s) - 1))
             last == s[Len(s)]
         IN IF last \in Range(front) THEN front ELSE Append(front, last)

\* The dict of line 94: one sub-table per distinct value of the column, the
\* rows of each in their input order.
get_splited_df_dict(t, split_column) ==
    [value \in Range(unique(Column(t, split_column))) |->
        SelectSeq(t, LAMBDA r : r[split_column] = value)]

\* The keys of that dict in iteration (insertion) order.
dict_keys(t, split_column) == unique(Column(t, split_column))

resample_keep_group(group, n_samples) == {group}

\* sklearn.utils.resample(group, replace=True, n_samples=n): every sequence of
\* n rows drawn from the group is a possible outcome.
resample(group, n_samples) == [1..n_samples -> Range(group)]

\* The loop over split_dfs.keys() followed by pd.concat: the possible tables.
RECURSIVE concat_resampled(_, _, _)
concat_resampled(keys, split_dfs, n) ==
    IF keys = <<>> THEN {<<>>}
    ELSE {a \o b : a \in resample(split_dfs[Head(keys)], n),
                   b \in concat_resampled(Tail(keys), split_dfs, n)}

\* split_dfs["Jumping"] raises KeyError when the dict has no such key.
sample_down_raises(t) == "Jumping" \notin DOMAIN get_splited_df_dict(t, "Behavior")

sample_down(t) ==
    LET split_dfs == get_splited_df_dict(t, "Behavior")
        len_jumping == Len(split_dfs["Jumping"])
    IN concat_resampled(dict_keys(t, "Behavior"), split_dfs, len_jumping)

sample_up_raises(t) == "Lying chest" \notin DOMAIN get_splited_df_dict(t, "Behavior")

sample_up(t) ==
    LET split_dfs == get_splited_df_dict(t, "Behavior")
        len_lying == Len(split_dfs["Lying chest"])
    IN concat_resampled(dict_keys(t, "Behavior"), split_dfs, len_lying)

InitBalance ==
    /\ pc = "call" /\ op = ""
    /\ UnifyIdle /\ FilterIdle /\ WindowIdle
    /\ df \in Tables(BalanceRows, MaxTable) /\ result = NoValue

SampleDownSwallow ==
    /\ pc = "call"
    /\ op' = "sample_down"
    /\ IF sample_down_raises(df)
          THEN pc' = "returned" /\ result' = <<>>
          ELSE \E out \in sample_down(df) : pc' = "returned" /\ result' = out
    /\ UNCHANGED <<uvars, fvars, df, wvars>>

SampleDown ==
    /\ pc = "call"
    /\ op' = "sample_down"
    /\ IF sample_down_raises(df)
          THEN pc' = "raised" /\ result' = result
          ELSE \E out \in sample_down(df) : pc' = "returned" /\ result' = out
    /\ UNCHANGED <<uvars, fvars, df, wvars>>

SampleUp ==
    /\ pc = "call"
    /\ op' = "sample_up"
    /\ IF sample_up_raises(df)
          THEN pc' = "raised" /\ result' = result
          ELSE \E out \in sample_up(df) : pc' = "returned" /\ result' = out
    /\ UNCHANGED <<uvars, fvars, df, wvars>>

NextBalance == SampleDown \/ SampleUp

SpecBalance == InitBalance /\ [][NextBalance]_vars

Reference == IF op = "sample_down" THEN "Jumping" ELSE "Lying chest"

RowsWith(t, label) == {k \in DOMAIN t : t[k]["Behavior"] = label}

GroupSize(t, label) == Cardinality(RowsWith(t, label))

Present(t) == {t[k]["Behavior"] : k \in DOMAIN t}

C8_RaisesIffReferenceAbsent ==
    op # "" =>
        /\ pc = "raised" <=> Reference \notin Present(df)
        /\ pc = "returned" <=> Reference \in Present(df)
        /\ pc = "raised" => result = NoValue
        /\ df = <<>> => pc = "raised"

C8_Witness ==
    /\ op = "sample_down" /\ pc = "raised"
    /\ Present(df) = {"Lying chest", "Walking"}

MinGroup(t) ==
    CHOOSE n \in 0..Len(t) :
        /\ \E label \in Present(t) : GroupSize(t, label) = n
        /\ \A label \in Present(t) : GroupSize(t, label) >= n

MaxGroup(t) ==
    CHOOSE n \in 0..Len(t) :
        /\ \E label \in Present(t) : GroupSize(t, label) = n
        /\ \A label \in Present(t) : GroupSize(t, label) <= n

\* C10: sample_down gives every label group the row count of the smallest group
\* of the input, sample_up that of the biggest group.
C10_BalancedToExtreme ==
    pc = "returned" =>
        \A label \in Present(df) :
            GroupSize(result, label) =
                IF op = "sample_down" THEN MinGroup(df) ELSE MaxGroup(df)

(***************************************************************************)
(* apply_windowing                                                         *)
(***************************************************************************)
DogIDs == {1, 2}

WindowLabels == {"Lying chest", "Walking"}

\* The values a column may hold, in the sorted order numpy.unique gives.
SortedDogIDs == <<1, 2>>

SortedLabels == <<"Lying chest", "Walking">>

WindowRows == [DogID : DogIDs, t_sec : {0}, x : Values, Behavior : WindowLabels]

\* range(start, stop, step) for step > 0, as the sequence of its values.
RECURSIVE PyRange(_, _, _)
PyRange(start, stop, step) ==
    IF start < stop THEN <<start>> \o PyRange(start + step, stop, step) ELSE <<>>

\* a[lo:hi] for 0 <= lo: the slice stops at the end of a.
Slice(a, lo, hi) == SubSeq(a, lo + 1, Min(hi, Len(a)))

\* ndarray.mean(): sum / count, as a fraction in lowest terms.
Mean(a) ==
    IF a = <<>> THEN "nan"
    ELSE LET g == Gcd(Sum(a), Len(a))
         IN [num |-> Sum(a) \div g, den |-> Len(a) \div g]

\* numpy.unique(a): the distinct values of a, sorted.
np_unique(a, sorted) == SelectSeq(sorted, LAMBDA v : v \in Range(a))

\* scipy.stats.mode: scan the sorted distinct values, keeping a value only when
\* its count is strictly greater than the best so far.
RECURSIVE mode_scan(_, _, _, _)
mode_scan(scores, a, mostfrequent, oldcounts) ==
    IF scores = <<>> THEN mostfrequent
    ELSE LET counts == Count(a, Head(scores))
         IN mode_scan(Tail(scores), a,
                      IF counts > oldcounts THEN Head(scores) ELSE mostfrequent,
                      Max(counts, oldcounts))

mode_first(a, sorted) == a[1]

mode(a, sorted) == mode_scan(np_unique(a, sorted), a, 0, 0)

feature_offsets_inclusive(t, w, s) == PyRange(0, Len(t) - w + 1, s)

feature_offsets_unit_step(t, w, s) == PyRange(0, Len(t) - w, 1)

feature_offsets_to_end(t, w, s) == PyRange(0, Len(t), s)

\* Line 41: the offsets of the feature loop.
feature_offsets(t, w, s) == PyRange(0, Len(t) - w, s)

\* Line 49: the label loop goes on while its offset is below the stop value.
label_loop_continues(t, w, offset) == offset < Len(t) - w

InitWindow ==
    /\ pc = "features" /\ op = ""
    /\ UnifyIdle /\ FilterIdle
    /\ df \in Tables(WindowRows, MaxLen)
    /\ window_size \in 1..MaxWindow /\ step_size \in 1..MaxStep
    /\ i = 0
    /\ values = <<>> /\ df_windows = <<>> /\ dog_ids = <<>> /\ train_labels = <<>>
    /\ balancer_calls = <<>> /\ result = NoValue

\* Lines 39-44, for the feature column x (DogID, t_sec and Behavior are dropped).
WindowFeatures ==
    /\ pc = "features"
    /\ LET offsets == feature_offsets(df, window_size, step_size)
           windows == [k \in DOMAIN offsets |->
                          Slice(Column(df, "x"), offsets[k], offsets[k] + window_size)]
       IN /\ values' = windows
          /\ df_windows' = [k \in DOMAIN windows |-> [x |-> Mean(windows[k])]]
    /\ i' = 0
    /\ pc' = "labels"
    /\ UNCHANGED <<op, uvars, fvars, df, window_size, step_size, dog_ids, train_labels,
                   balancer_calls, result>>

\* Lines 49-54: one iteration of the label loop.
LabelWindow ==
    /\ pc = "labels"
    /\ label_loop_continues(df, window_size, i)
    /\ LET dogid == mode(Slice(Column(df, "DogID"), i, i + window_size), SortedDogIDs)
           label == mode(Slice(Column(df, "Behavior"), i, i + window_size), SortedLabels)
       IN /\ dog_ids' = Append(dog_ids, dogid)
          /\ train_labels' = Append(train_labels, label)
    /\ i' = i + step_size
    /\ UNCHANGED <<pc, op, uvars, fvars, df, window_size, step_size, values, df_windows,
                   balancer_calls, result>>

\* Lines 56-57, once the label loop has ended: the two columns are aligned to
\* the index of df_windows, a missing entry becoming NaN.
AssignLabels ==
    /\ pc = "labels"
    /\ ~label_loop_continues(df, window_size, i)
    /\ df_windows' =
          [k \in DOMAIN df_windows |->
              [x |-> df_windows[k]["x"],
               DogID |-> IF k <= Len(dog_ids) THEN dog_ids[k] ELSE "NaN",
               Behavior |-> IF k <= Len(train_labels) THEN train_labels[k] ELSE "NaN"]]
    /\ pc' = "balance"
    /\ UNCHANGED <<op, uvars, fvars, df, window_size, step_size, i, values, dog_ids,
                   train_labels, balancer_calls, result>>

BalanceSkipped ==
    /\ pc = "balance"
    /\ pc' = "return"
    /\ UNCHANGED <<op, uvars, fvars, df, wvars, result>>

\* Line 59: df_windows = sample_up(df_windows).
Balance ==
    /\ pc = "balance"
    /\ balancer_calls' = Append(balancer_calls, df_windows)
    /\ IF sample_up_raises(df_windows)
          THEN pc' = "raised" /\ df_windows' = df_windows
          ELSE \E out \in sample_up(df_windows) : pc' = "return" /\ df_windows' = out
    /\ UNCHANGED <<op, uvars, fvars, df, window_size, step_size, i, values, dog_ids,
                   train_labels, result>>

\* Line 61.
Return ==
    /\ pc = "return"
    /\ result' = df_windows
    /\ pc' = "done"
    /\ UNCHANGED <<op, uvars, fvars, df, wvars>>

NextWindow == WindowFeatures \/ LabelWindow \/ AssignLabels \/ Balance \/ Return

SpecWindow == InitWindow /\ [][NextWindow]_vars

\* ceil(a / b) for b > 0.
CeilDiv(a, b) == -((-a) \div b)

ExpectedCount == Max(0, CeilDiv(Len(df) - window_size, step_size))

\* The records window number k (counted from 1) is meant to cover in column c.
Span(c, k) == [j \in 1..window_size |-> df[(k - 1) * step_size + j][c]]

\* C1: before balancing apply_windowing has produced exactly
\* max(0, ceil((L - w) / s)) window rows, and none when L <= w.
C1_WindowCountCeil ==
    /\ pc # "features" => Len(values) = ExpectedCount
    /\ pc \notin {"features", "labels"} =>
          Len(dog_ids) = ExpectedCount /\ Len(train_labels) = ExpectedCount
    /\ pc = "balance" => Len(df_windows) = ExpectedCount
    /\ (pc = "balance" /\ Len(df) <= window_size) => df_windows = <<>>

C1_Witness ==
    /\ pc = "balance"
    /\ Len(df) = 3 /\ window_size = 2 /\ step_size = 2
    /\ Len(df_windows) = 1

\* C2 as stated: the number of windows before balancing is
\* floor((N - window_size) / step_size); read here for the series that are at
\* least as long as one window.
C2_WindowCountFloor ==
    (pc = "balance" /\ Len(df) >= window_size) =>
        Len(df_windows) = (Len(df) - window_size) \div step_size

\* C2 amended: the number of windows before balancing is
\* max(0, ceil((N - window_size) / step_size)), the windows are numbered without
\* gaps, and window number n (from 0) starts at offset n * step_size.
C2_WindowIndexing ==
    /\ pc = "labels" => i = Len(dog_ids) * step_size
    /\ pc = "balance" =>
          /\ DOMAIN df_windows = 1..Max(0, CeilDiv(Len(df) - window_size, step_size))
          /\ DOMAIN values = DOMAIN df_windows
          /\ \A k \in DOMAIN values :
                \A j \in 1..Len(values[k]) :
                    values[k][j] = df[(k - 1) * step_size + j]["x"]

C2_Witness ==
    /\ pc = "balance"
    /\ Len(df) = 4 /\ window_size = 1 /\ step_size = 2
    /\ Len(df_windows) = 2
    /\ values[2] = <<df[3]["x"]>>

\* C3: every window of the window table built before balancing covers exactly
\* window_size consecutive records inside the series, and its feature value is
\* the sum of the column over those records divided by window_size.
C3_FullWindowMean ==
    pc \in {"labels", "balance"} =>
        /\ \A k \in DOMAIN values :
              /\ Len(values[k]) = window_size
              /\ (k - 1) * step_size + window_size <= Len(df)
              /\ values[k] = Span("x", k)
        /\ DOMAIN df_windows = DOMAIN values
        /\ \A k \in DOMAIN df_windows :
              LET m == df_windows[k]["x"]
              IN /\ m \in [num : Int, den : Int]
                 /\ m["den"] > 0
                 /\ m["num"] * window_size = m["den"] * Sum(Span("x", k))

C3_Witness ==
    /\ pc = "balance"
    /\ window_size = 2 /\ step_size = 1
    /\ Len(df_windows) = 2
    /\ Column(df, "x") = <<1, 2, 2, 1>>
    /\ df_windows[1]["x"] = [num |-> 3, den |-> 2]
    /\ df_windows[2]["x"] = [num |-> 2, den |-> 1]

MostFrequent(a) == {v \in Range(a) : \A u \in Range(a) : Count(a, v) >= Count(a, u)}

\* C4: the DogID and the Behavior of every window emitted are each a most frequent
\* value of the column over the records the window covers, the same records
\* its mean is taken over, and two windows with the same contents get the same
\* choice.
C4_ModalLabels ==
    pc \in {"labels", "balance"} =>
        /\ DOMAIN train_labels = DOMAIN dog_ids
        /\ \A k \in DOMAIN dog_ids :
              /\ dog_ids[k] \in MostFrequent(Span("DogID", k))
              /\ train_labels[k] \in MostFrequent(Span("Behavior", k))
              /\ k \in DOMAIN values /\ values[k] = Span("x", k)
        /\ \A k1, k2 \in DOMAIN dog_ids :
              /\ Span("DogID", k1) = Span("DogID", k2) => dog_ids[k1] = dog_ids[k2]
              /\ Span("Behavior", k1) = Span("Behavior", k2) =>
                    train_labels[k1] = train_labels[k2]

C4_Witness ==
    /\ pc = "balance"
    /\ window_size = 3 /\ step_size = 1 /\ Len(df) = 4
    /\ Column(df, "Behavior") = <<"Walking", "Lying chest", "Lying chest", "Walking">>
    /\ Column(df, "DogID") = <<2, 1, 1, 1>>
    /\ train_labels = <<"Lying chest">>
    /\ dog_ids = <<1>>

\* The complete window table, from the lists the loops have built.
BuiltTable ==
    [k \in DOMAIN values |->
        [x |-> Mean(values[k]), DogID |-> dog_ids[k], Behavior |-> train_labels[k]]]

\* out is a table sample_up can return for t: per label of t, in order of first
\* appearance, as many rows of that label's group as t has "Lying chest" rows.
IsUpsampleOf(out, t) ==
    LET labels == unique(Column(t, "Behavior"))
        n == GroupSize(t, "Lying chest")
    IN /\ n > 0
       /\ Len(out) = n * Len(labels)
       /\ \A j \in 1..Len(labels) : \A m \in 1..n :
             \E r \in RowsWith(t, labels[j]) : out[(j - 1) * n + m] = t[r]

\* C9: the balancer is called exactly once, after the last window was emitted,
\* with the complete window table; nothing is emitted afterwards, and what
\* apply_windowing returns is what the balancer returned.
C9_BalanceOnceAtEnd ==
    /\ Len(balancer_calls) <= 1
    /\ pc \in {"features", "labels", "balance"} => balancer_calls = <<>>
    /\ pc \in {"return", "done", "raised"} =>
          /\ Len(balancer_calls) = 1
          /\ Len(values) = ExpectedCount
          /\ Len(dog_ids) = ExpectedCount
          /\ Len(train_labels) = ExpectedCount
          /\ balancer_calls[1] = BuiltTable
    /\ pc = "return" => IsUpsampleOf(df_windows, balancer_calls[1])
    /\ pc = "done" => result = df_windows /\ IsUpsampleOf(result, balancer_calls[1])
    /\ pc = "raised" => sample_up_raises(balancer_calls[1]) /\ result = NoValue
    /\ pc # "done" => result = NoValue

C9_Witness ==
    /\ pc = "done"
    /\ Len(balancer_calls[1]) = 3
    /\ Present(balancer_calls[1]) = {"Lying chest", "Walking"}
    /\ GroupSize(balancer_calls[1], "Lying chest") = 2
    /\ Len(result) = 4

====
